---- MODULE Spec2Model ----
(***************************************************************************)
(* Model of the Conan recipe of qoiview (conanfile.py).                    *)
(*                                                                         *)
(* The recipe is a class with three list-valued class attributes and one   *)
(* method, layout(self), whose body is the single call cmake_layout(self). *)
(* The package manager loads a manifest, and may then call layout() on it  *)
(* any number of times.  Each manifest of the repository is one recipe     *)
(* object; the state is the attributes of each recipe object, the position *)
(* of its layout() frame, the calls that frame has made, and the folders   *)
(* that cmake_layout has set on the object it was given.                   *)
(*                                                                         *)
(* A Python string is modelled as the sequence of its characters, so that  *)
(* splitting a requirement at '/' is computed and not assumed.             *)
(***************************************************************************)
EXTENDS Integers, Sequences, FiniteSets, TLC

VARIABLES settings, generators, requires, pc, calls, folders, invocations

vars == <<settings, generators, requires, pc, calls, folders, invocations>>

\* Number of layout() invocations the package manager makes per manifest.
MaxCalls == 2

(***************************************************************************)
(* Strings                                                                 *)
(***************************************************************************)

\* The separator of a Conan reference "name/version".
Sep == "/"

RECURSIVE CountSep(_)
\* str.count("/")
CountSep(s) ==
    IF s = <<>> THEN 0
    ELSE (IF Head(s) = Sep THEN 1 ELSE 0) + CountSep(Tail(s))

RECURSIVE FindSep(_, _)
\* str.find("/") from position i (1-based); Len(s) + 1 when there is none.
FindSep(s, i) ==
    IF i > Len(s) THEN i
    ELSE IF s[i] = Sep THEN i
    ELSE FindSep(s, i + 1)

\* The part of a reference before its first separator.
NameOf(s) == SubSeq(s, 1, FindSep(s, 1) - 1)

\* The part of a reference after its first separator.
VersionOf(s) == SubSeq(s, FindSep(s, 1) + 1, Len(s))

\* The elements of a list.
Elems(l) == { l[i] : i \in 1..Len(l) }

(***************************************************************************)
(* The recipe of src/conanfile.py (Variant A)                              *)
(***************************************************************************)

Recipe_settings_dup == <<"os", "compiler", "build_type", "build_type">>
Recipe_settings == <<"os", "compiler", "build_type", "arch">>

Recipe_generators_one == <<"CMakeToolchain">>
Recipe_generators == <<"CMakeToolchain", "CMakeDeps">>

Recipe_requires_empty == <<>>
Recipe_requires_unpinned ==
    << <<"f","m","t","/","1","1",".","1",".","3">>,
       <<"g","l","f","w","/","3",".","4">>,
       <<"g","l","b","i","n","d","i","n","g">>,
       <<"k","h","r","p","l","a","t","f","o","r","m","/","c","c","i",".","2","0","2","0","0","5","2","9">>,
       <<"c","l","i","1","1","/","2",".","4",".","1">> >>
Recipe_requires_nokhr ==
    << <<"f","m","t","/","1","1",".","1",".","3">>,
       <<"g","l","f","w","/","3",".","4">>,
       <<"g","l","b","i","n","d","i","n","g","/","3",".","3",".","0">>,
       <<"c","l","i","1","1","/","2",".","4",".","1">> >>
Recipe_requires_fmt10 ==
    << <<"f","m","t","/","1","0",".","2",".","1">>,
       <<"g","l","f","w","/","3",".","4">>,
       <<"g","l","b","i","n","d","i","n","g","/","3",".","3",".","0">>,
       <<"k","h","r","p","l","a","t","f","o","r","m","/","c","c","i",".","2","0","2","0","0","5","2","9">>,
       <<"c","l","i","1","1","/","2",".","4",".","1">> >>
Recipe_requires ==
    << <<"f","m","t","/","1","1",".","1",".","3">>,
       <<"g","l","f","w","/","3",".","4">>,
       <<"g","l","b","i","n","d","i","n","g","/","3",".","3",".","0">>,
       <<"k","h","r","p","l","a","t","f","o","r","m","/","c","c","i",".","2","0","2","0","0","5","2","9">>,
       <<"c","l","i","1","1","/","2",".","4",".","1">> >>

(***************************************************************************)
(* The second manifest (Variant B), which is not among the source files:   *)
(* its attributes are as the specification lists them.  The specification  *)
(* gives the loader's version, 0.1.36, and not its package name.           *)
(***************************************************************************)

VariantB_settings == <<"os", "compiler", "build_type", "arch">>

VariantB_generators == <<"CMakeToolchain", "CMakeDeps">>

VariantB_requires ==
    << <<"f","m","t","/","1","1",".","1",".","3">>,
       <<"g","l","f","w","/","3",".","4">>,
       <<"g","l","a","d","/","0",".","1",".","3","6">>,
       <<"c","l","i","1","1","/","2",".","4",".","1">> >>

\* The manifests of the repository; each is one recipe object.
Manifests == {"A", "B"}

\* The folder cmake_layout derives from the build_type the tool resolved.
BuildFolders == {"build/Debug", "build/Release"}

(***************************************************************************)
(* State after the manifests are loaded                                    *)
(***************************************************************************)

Init ==
    /\ settings = [m \in Manifests |->
                      IF m = "A" THEN Recipe_settings ELSE VariantB_settings]
    /\ generators = [m \in Manifests |->
                      IF m = "A" THEN Recipe_generators ELSE VariantB_generators]
    /\ requires = [m \in Manifests |->
                      IF m = "A" THEN Recipe_requires ELSE VariantB_requires]
    /\ pc = [m \in Manifests |-> "idle"]
    /\ calls = [m \in Manifests |-> <<>>]
    /\ folders = [m \in Manifests |-> "unset"]
    /\ invocations = [m \in Manifests |-> 0]

(***************************************************************************)
(* layout(self)                                                            *)
(***************************************************************************)

\* The package manager calls layout() on a recipe: a new frame, at line 17.
layout_enter(self) ==
    /\ pc[self] = "idle"
    /\ invocations[self] < MaxCalls
    /\ pc' = [pc EXCEPT ![self] = "line17"]
    /\ calls' = [calls EXCEPT ![self] = <<>>]
    /\ UNCHANGED <<settings, generators, requires, folders, invocations>>

\* The other recipe object.
layout_arg_other(self) == CHOOSE m \in Manifests : m # self
\* The argument of the call at line 17: the recipe itself.
layout_arg(self) == self

\* Where the frame goes when the call at line 17 has returned: the end of
\* the method.
layout_after_call(self) == "return"

\* Line 17 with an assignment after it, clearing the requirements.
layout_body_clears(self) ==
    /\ calls' = [calls EXCEPT ![self] =
                    Append(@, [fn |-> "cmake_layout", arg |-> layout_arg(self)])]
    /\ requires' = [requires EXCEPT ![self] = <<>>]
    /\ UNCHANGED <<settings, generators>>
\* Line 17: the frame calls cmake_layout(self), and touches nothing else.
layout_body(self) ==
    /\ calls' = [calls EXCEPT ![self] =
                    Append(@, [fn |-> "cmake_layout", arg |-> layout_arg(self)])]
    /\ UNCHANGED <<settings, generators, requires>>

\* The frame at line 17 makes its call.
layout_call(self) ==
    /\ pc[self] = "line17"
    /\ layout_body(self)
    /\ pc' = [pc EXCEPT ![self] = "cmake_layout"]
    /\ UNCHANGED <<folders, invocations>>

\* cmake_layout(conanfile), of the package manager's library: it sets the
\* folders of the object it is given, and returns.
cmake_layout(self) ==
    /\ pc[self] = "cmake_layout"
    /\ \E f \in BuildFolders :
          folders' = [folders EXCEPT ![calls[self][Len(calls[self])].arg] = f]
    /\ pc' = [pc EXCEPT ![self] = layout_after_call(self)]
    /\ UNCHANGED <<settings, generators, requires, calls, invocations>>

\* The end of the method as a wait that never ends.
layout_return_blocks(self) ==
    /\ pc[self] = "return"
    /\ UNCHANGED vars
\* The end of the method: the frame returns None to the package manager.
layout_return(self) ==
    /\ pc[self] = "return"
    /\ pc' = [pc EXCEPT ![self] = "idle"]
    /\ invocations' = [invocations EXCEPT ![self] = @ + 1]
    /\ UNCHANGED <<settings, generators, requires, calls, folders>>

Next ==
    \E self \in Manifests :
        \/ layout_enter(self)
        \/ layout_call(self)
        \/ cmake_layout(self)
        \/ layout_return(self)

Spec == Init /\ [][Next]_vars

\* A running Python frame is executed without preemption: the interpreter
\* takes the recipe's own steps.  Nothing is assumed of cmake_layout.
FairSpec ==
    /\ Spec
    /\ \A self \in Manifests :
          /\ WF_vars(layout_call(self))
          /\ WF_vars(layout_return(self))

(***************************************************************************)
(* Properties                                                              *)
(***************************************************************************)

fmt == <<"f","m","t">>
glfw == <<"g","l","f","w">>
glbinding == <<"g","l","b","i","n","d","i","n","g">>
khrplatform == <<"k","h","r","p","l","a","t","f","o","r","m">>
cli11 == <<"c","l","i","1","1">>

v11_1_3 == <<"1","1",".","1",".","3">>
v3_4 == <<"3",".","4">>
v3_3_0 == <<"3",".","3",".","0">>
v0_1_36 == <<"0",".","1",".","3","6">>
v2_4_1 == <<"2",".","4",".","1">>

\* The name/version pairs of a list of references.
Pins(l) == { <<NameOf(l[i]), VersionOf(l[i])>> : i \in 1..Len(l) }

\* The package names of a list of references.
Names(l) == { NameOf(l[i]) : i \in 1..Len(l) }

\* The setting axes the package manager resolves per build.
SettingAxes == {"os", "compiler", "build_type", "arch"}

\* The record of the one call layout(self) makes.
Delegation(self) == [fn |-> "cmake_layout", arg |-> self]

\* C1: the requires list of the recipe is exactly the Variant A set: fmt
\* 11.1.3, glfw 3.4, glbinding 3.3.0, a khrplatform package and cli11 2.4.1;
\* five entries and no others.
C1_RequiresIsVariantA ==
    /\ Len(requires["A"]) = 5
    /\ { p \in Pins(requires["A"]) : p[1] # khrplatform }
          = { <<fmt, v11_1_3>>, <<glfw, v3_4>>, <<glbinding, v3_3_0>>,
              <<cli11, v2_4_1>> }
    /\ Cardinality({ i \in 1..Len(requires["A"]) :
                        NameOf(requires["A"][i]) = khrplatform }) = 1

C1_Witness ==
    /\ invocations["A"] >= 1
    /\ pc["A"] = "idle"
    /\ <<glbinding, v3_3_0>> \in Pins(requires["A"])

\* C2: in every state reached by loading the recipe and calling layout(),
\* its settings list holds each of os, compiler, build_type and arch exactly
\* once, and nothing else.
C2_SettingsAreTheFourAxes ==
    /\ Elems(settings["A"]) \subseteq SettingAxes
    /\ \A a \in SettingAxes :
          Cardinality({ i \in 1..Len(settings["A"]) : settings["A"][i] = a }) = 1

C2_Witness ==
    /\ invocations["A"] >= 1
    /\ folders["A"] \in BuildFolders
    /\ "arch" \in Elems(settings["A"])

\* C3: both manifests request the same two generators, CMakeToolchain and
\* CMakeDeps, and no other.
C3_SameTwoGenerators ==
    /\ \A m \in Manifests :
          /\ Len(generators[m]) = 2
          /\ Elems(generators[m]) = {"CMakeToolchain", "CMakeDeps"}
    /\ Elems(generators["A"]) = Elems(generators["B"])

C3_Witness ==
    /\ invocations["A"] >= 1
    /\ invocations["B"] >= 1
    /\ "CMakeDeps" \in Elems(generators["A"]) \cap Elems(generators["B"])

\* C4: in every state reached by loading a recipe and calling layout() zero
\* or more times, its requires list has at least one entry.
C4_RequiresNonEmpty ==
    \A m \in Manifests : Len(requires[m]) >= 1

C4_Witness ==
    /\ invocations["A"] >= 1
    /\ pc["A"] = "return"
    /\ requires["A"] # <<>>

\* C5: every invocation of layout() makes exactly one call, cmake_layout
\* with the recipe itself as argument, and nothing else before it returns.
C5_DelegatesOnce ==
    \A self \in Manifests :
        /\ pc[self] = "line17" => calls[self] = <<>>
        /\ pc[self] \in {"cmake_layout", "return"}
              => calls[self] = <<Delegation(self)>>
        /\ (pc[self] = "idle" /\ invocations[self] >= 1)
              => calls[self] = <<Delegation(self)>>

C5_Witness ==
    /\ pc["A"] = "idle"
    /\ invocations["A"] >= 1
    /\ calls["A"] = <<Delegation("A")>>
    /\ folders["A"] \in BuildFolders

C7_ListsAsDeclared ==
    /\ settings["A"] = <<"os", "compiler", "build_type", "arch">>
    /\ generators["A"] = <<"CMakeToolchain", "CMakeDeps">>
    /\ Len(requires["A"]) = 5
    /\ <<NameOf(requires["A"][1]), NameOf(requires["A"][2]),
         NameOf(requires["A"][3]), NameOf(requires["A"][4]),
         NameOf(requires["A"][5])>>
          = <<fmt, glfw, glbinding, khrplatform, cli11>>
    /\ \A m \in Manifests :
          /\ settings[m] = (IF m = "A" THEN Recipe_settings ELSE VariantB_settings)
          /\ generators[m] = (IF m = "A" THEN Recipe_generators ELSE VariantB_generators)
          /\ requires[m] = (IF m = "A" THEN Recipe_requires ELSE VariantB_requires)

C7_Witness ==
    /\ invocations["A"] >= 2
    /\ folders["A"] \in BuildFolders
    /\ pc["A"] = "idle"

\* C8: every entry of the recipe's requires has exactly one '/', a non-empty
\* name before it and a non-empty version after it, and no name occurs in
\* two entries.
C8_PinnedPairs ==
    /\ \A i \in 1..Len(requires["A"]) :
          /\ CountSep(requires["A"][i]) = 1
          /\ NameOf(requires["A"][i]) # <<>>
          /\ VersionOf(requires["A"][i]) # <<>>
    /\ \A i, j \in 1..Len(requires["A"]) :
          NameOf(requires["A"][i]) = NameOf(requires["A"][j]) => i = j

C8_Witness ==
    /\ invocations["A"] >= 1
    /\ pc["A"] = "line17"
    /\ \E i \in 1..Len(requires["A"]) :
          NameOf(requires["A"][i]) = glbinding /\ VersionOf(requires["A"][i]) = v3_3_0

\* C9: layout() has no loop, wait or task of its own: a frame at line 17
\* makes its call, and once cmake_layout has returned the invocation ends.
C9_LayoutTerminates ==
    \A self \in Manifests :
        /\ (pc[self] = "line17") ~> (pc[self] = "cmake_layout")
        /\ (pc[self] = "return") ~> (pc[self] = "idle")

C9_Witness ==
    /\ pc["A"] = "idle"
    /\ invocations["A"] >= 1
    /\ pc["B"] = "return"

====
